---------------------------- MODULE Spec2Model ----------------------------
(***************************************************************************)
(* Distance-preserving velocity profile: DistancePreservingEngine          *)
(* (src/distance_preserving_engine.py), the anchor solver of DataBridge    *)
(* (src/data_bridge.py) and the drag handlers of GraphWindow               *)
(* (src/graph_window.py).                                                  *)
(*                                                                         *)
(* Python floats are modelled as exact rationals <<numerator,              *)
(* denominator>> in lowest terms with a positive denominator; the          *)
(* tolerances of the source (1e-9, 1e-6, 0.001) are kept as comparisons.   *)
(* Arrays keep the source's 0-based indices: an array of length n is a     *)
(* function on 0..n-1.                                                     *)
(***************************************************************************)
EXTENDS Integers, Sequences, FiniteSets, TLC

VARIABLES
    fps,            \* DistancePreservingEngine.fps
    t,              \* DistancePreservingEngine.t   node times
    dt,             \* DistancePreservingEngine.dt  segment durations
    m,              \* DistancePreservingEngine.m   distance rates
    A,              \* DistancePreservingEngine.A   propagation signs
    B,              \* DistancePreservingEngine.B   offsets
    anchor_k,       \* DistancePreservingEngine.anchor_k
    w_prev,         \* DistancePreservingEngine.w_prev (m/s)
    is_prepared,    \* DistancePreservingEngine.is_prepared
    call,           \* the last engine call: its arguments and what it returned
    hist,           \* history of the engine calls: built = a build has succeeded
                    \* and reset() was not called since; rejected = a build
                    \* failed validation and none has succeeded since
    bridge,         \* DataBridge: segments, fps, solver state, stored profile
    graph,          \* GraphWindow: optimization_data, dragging, selected index
    bcall,          \* the last DataBridge / GraphWindow operation and its result
    app             \* VelocityOptimizer: open windows, shutdown request, last close

engineVars == <<fps, t, dt, m, A, B, anchor_k, w_prev, is_prepared, call, hist>>
bridgeVars == <<bridge, graph, bcall, app>>
vars == <<fps, t, dt, m, A, B, anchor_k, w_prev, is_prepared, call, hist,
          bridge, graph, bcall, app>>

---------------------------------------------------------------------------
(* Bounds of the model *)

\* longest segment list handed to a build
MaxSegs == 3

---------------------------------------------------------------------------
(* Exact rational arithmetic standing for Python float arithmetic *)

AbsInt(n) == IF n < 0 THEN -n ELSE n

RECURSIVE GCD(_, _)
GCD(a, b) == IF b = 0 THEN a ELSE GCD(b, a % b)

\* n/d in lowest terms, d > 0
Norm(n, d) ==
    LET s == IF d < 0 THEN -1 ELSE 1
        g == GCD(AbsInt(n), AbsInt(d))
    IN  <<(s * n) \div g, (s * d) \div g>>

R(n) == <<n, 1>>
\* common factors are divided out before multiplying, to keep the products
\* within 32-bit integers
RAdd(x, y) ==
    LET g == GCD(x[2], y[2])
    IN  Norm(x[1] * (y[2] \div g) + y[1] * (x[2] \div g), (x[2] \div g) * y[2])
RSub(x, y) == RAdd(x, <<-y[1], y[2]>>)
RMul(x, y) ==
    LET g1 == GCD(AbsInt(x[1]), y[2])
        g2 == GCD(AbsInt(y[1]), x[2])
    IN  Norm((x[1] \div g1) * (y[1] \div g2), (x[2] \div g2) * (y[2] \div g1))
RDiv(x, y) == RMul(x, IF y[1] < 0 THEN <<-y[2], -y[1]>> ELSE <<y[2], y[1]>>)
RLt(x, y) == RSub(x, y)[1] < 0
RLe(x, y) == RSub(x, y)[1] <= 0
RAbs(x) == <<AbsInt(x[1]), x[2]>>
RMax(x, y) == IF RLt(x, y) THEN y ELSE x

\* the literal 3.6 (m/s <-> km/h)
KmhPerMps == <<18, 5>>

\* arrays with the source's 0-based indices
Len0(a) == Cardinality(DOMAIN a)
EmptyArr == [i \in {} |-> R(0)]
Arr(s) == [i \in 0..(Len(s) - 1) |-> s[i + 1]]

---------------------------------------------------------------------------
(* Raw segment fields: a number (or numeric text), non-numeric text, or   *)
(* a missing key                                                           *)

Num(n) == <<"num", n>>
Text == <<"text", 0>>
Missing == <<"missing", 0>>

Seg(fs, fe, d) == [frame_start |-> fs, frame_end |-> fe, distance |-> d]

ValidSegments ==
    { Seg(Num(0), Num(30), Num(10)),
      Seg(Num(30), Num(60), Num(8)),
      Seg(Num(60), Num(75), Num(1)) }

InvalidSegments ==
    { Seg(Num(30), Num(30), Num(10)),
      Seg(Num(0), Num(30), Num(0)),
      Seg(Num(0), Num(30), Text),
      Seg(Num(0), Missing, Num(10)) }

RECURSIVE SeqsUpTo(_, _)
SeqsUpTo(S, n) ==
    IF n = 0 THEN {<< >>}
    ELSE LET shorter == SeqsUpTo(S, n - 1)
         IN  shorter \cup {Append(s, x) : s \in {q \in shorter : Len(q) = n - 1}, x \in S}

\* lists every segment of which passes validation, in table order (frame_start
\* never decreasing)
AcceptableLists ==
    {s \in SeqsUpTo(ValidSegments, MaxSegs) \ {<< >>} :
        \A i \in 1..(Len(s) - 1) : s[i].frame_start[2] <= s[i + 1].frame_start[2]}

\* the empty list, and lists holding one segment that fails validation, alone,
\* after a valid segment and before one
RejectableLists ==
    {<< >>}
    \cup {<<bad>> : bad \in InvalidSegments}
    \cup {<<Seg(Num(0), Num(30), Num(10)), bad>> : bad \in InvalidSegments}
    \cup {<<bad, Seg(Num(30), Num(60), Num(8))>> : bad \in InvalidSegments}

SegmentLists == AcceptableLists \cup RejectableLists

FpsChoices == {30, 0}

\* anchor velocities (km/h) handed to update_realtime
\* 36 km/h + 1.8e-6 km/h: 5e-7 m/s above 10 m/s, inside the 1e-6 threshold of
\* _update_delta
JustAbove36 == <<180000009, 5000000>>

AnchorVelocities == {R(-18), R(36), JustAbove36, R(54), R(108)}

Methods == {"direct", "delta", "other"}

---------------------------------------------------------------------------
(* DistancePreservingEngine: pure parts *)

\* reciprocal of the 1e-9 tolerance of _verify_distance_conservation
VerifyToleranceInv == 1000000000
\* reciprocal of the 1e-6 "no change" threshold of _update_delta
DeltaThresholdInv == 1000000

\* reciprocal of the 0.001 guard on |A| of _reverse_calculate_anchor
GuardInv == 1000
\* reciprocal of the 0.001 same-time window of GraphWindow._on_mouse_motion
SameTimeInv == 1000

\* x > 1/inv for x >= 0 (kept free of products that leave the integer range)
ExceedsInv(x, inv) == x[1] > 0 /\ (x[2] < inv \/ RLt(<<1, inv>>, x))

ToKmh(v) == RMul(v, KmhPerMps)
ToMps(v) == RDiv(v, KmhPerMps)

\* max(0, x)
ClampNonNegative(x) == RMax(R(0), x)

FieldMissing(seg) ==
    \/ seg.frame_start[1] = "missing"
    \/ seg.frame_end[1] = "missing"
    \/ seg.distance[1] = "missing"

FieldNotNumeric(seg) ==
    \/ seg.frame_start[1] = "text"
    \/ seg.frame_end[1] = "text"
    \/ seg.distance[1] = "text"

\* (mutant) the distance check dropped
SegmentRaises_NoDistanceCheck(seg, f) ==
    IF FieldMissing(seg) THEN TRUE
    ELSE IF FieldNotNumeric(seg) THEN TRUE
    ELSE IF seg.frame_end[2] <= seg.frame_start[2] THEN TRUE
    ELSE f <= 0

\* one iteration of the loop of _validate_segments raises ValueError
SegmentRaises(seg, f) ==
    IF FieldMissing(seg) THEN TRUE
    ELSE IF FieldNotNumeric(seg) THEN TRUE
    ELSE IF seg.frame_end[2] <= seg.frame_start[2] THEN TRUE
    ELSE IF seg.distance[2] <= 0 THEN TRUE
    ELSE IF f <= 0 THEN TRUE
    ELSE RLe(RDiv(R(seg.frame_end[2] - seg.frame_start[2]), R(f)), R(0))

\* _validate_segments raises ValueError
ValidateRaises(segments, f) ==
    \/ Len(segments) = 0
    \/ \E i \in 1..Len(segments) : SegmentRaises(segments[i], f)

\* dt_i = (frame_end - frame_start) / fps
SegmentDuration(seg, f) == RDiv(R(seg.frame_end[2] - seg.frame_start[2]), R(f))

DurationsOf(segments, f) ==
    [i \in 0..(Len(segments) - 1) |-> SegmentDuration(segments[i + 1], f)]

\* (mutant) the durations are not accumulated
NodeTime_NotAccumulated(d, i) == IF i = 0 THEN R(0) ELSE d[i - 1]

RECURSIVE NodeTime(_, _)
NodeTime(d, i) == IF i = 0 THEN R(0) ELSE RAdd(NodeTime(d, i - 1), d[i - 1])

NodeTimesOf(d) == [i \in 0..Len0(d) |-> NodeTime(d, i)]

\* m_i = 2.0 * distance / dt_i
DistanceRate(seg, d_i) == RDiv(RMul(R(2), R(seg.distance[2])), d_i)

DistanceRatesOf(segments, d) ==
    [i \in 0..(Len(segments) - 1) |-> DistanceRate(segments[i + 1], d[i])]

\* (mutant) the first node taken as the anchor
AnchorChoice_First(N) == 0

\* anchor node: the middle node
AnchorChoice(N) == N \div 2

\* (mutant) the parity test inverted
SignA_Inverted(i, k) ==
    IF ((i - k) % 2) = 0 THEN -1 ELSE 1

\* (mutant) the sign pattern lost: every node follows the anchor
SignA_AllPlus(i, k) == 1

\* A_i = 1 at the anchor, (-1)^(i-k) elsewhere
SignA(i, k) ==
    IF i = k THEN 1
    ELSE IF ((i - k) % 2) = 0 THEN 1 ELSE -1

\* (mutant) the leftward propagation reads m[i] of the wrong segment
RECURSIVE OffsetB_LeftShifted(_, _, _)
OffsetB_LeftShifted(mm, k, i) ==
    IF i = k THEN R(0)
    ELSE IF i > k THEN RSub(mm[i - 1], OffsetB_LeftShifted(mm, k, i - 1))
    ELSE RSub(mm[i + 1], OffsetB_LeftShifted(mm, k, i + 1))

\* (mutant) the offsets accumulate instead of alternating
RECURSIVE OffsetB_Added(_, _, _)
OffsetB_Added(mm, k, i) ==
    IF i = k THEN R(0)
    ELSE IF i > k THEN RAdd(mm[i - 1], OffsetB_Added(mm, k, i - 1))
    ELSE RAdd(mm[i], OffsetB_Added(mm, k, i + 1))

\* B[k] = 0, B[i+1] = m[i] - B[i] to the right, B[i-1] = m[i-1] - B[i] to the left
RECURSIVE OffsetB(_, _, _)
OffsetB(mm, k, i) ==
    IF i = k THEN R(0)
    ELSE IF i > k THEN RSub(mm[i - 1], OffsetB(mm, k, i - 1))
    ELSE RSub(mm[i], OffsetB(mm, k, i + 1))

\* (mutant) the halving forgotten
InitialAnchorVelocity_Whole(mm) == mm[0]

\* w = m[0] / 2
InitialAnchorVelocity(mm) == RDiv(mm[0], R(2))

\* v_i = A_i * w + B_i  (m/s)
NodeVelocity(a_i, b_i, w) == RAdd(RMul(R(a_i), w), b_i)

Point(time, velocity) == [time |-> time, velocity |-> velocity]

\* the node list built by prepare_initial_graph (no clamp)
BuildPoints(tt, aa, bb, w) ==
    [i \in 0..(Len0(tt) - 1) |->
        Point(tt[i], ToKmh(NodeVelocity(aa[i], bb[i], w)))]

\* _verify_distance_conservation(velocity_profile) with the engine's dt and m
VerifyDistanceConservation(profile, d, mm) ==
    IF Len0(d) > 0 /\ Len0(profile) < Len0(d) + 1 THEN FALSE
    ELSE \A i \in 0..(Len0(d) - 1) :
            LET v_start == ToMps(profile[i].velocity)
                v_end == ToMps(profile[i + 1].velocity)
                calculated == RDiv(RMul(RAdd(v_start, v_end), d[i]), R(2))
                expected == RDiv(RMul(mm[i], d[i]), R(2))
            IN  ~ExceedsInv(RAbs(RSub(calculated, expected)), VerifyToleranceInv)

\* the node list of _update_direct
DirectPoints(tt, aa, bb, w) ==
    [i \in 0..(Len0(tt) - 1) |->
        Point(tt[i], ClampNonNegative(ToKmh(NodeVelocity(aa[i], bb[i], w))))]

\* (mutant) the threshold test inverted
DeltaNoChange_Inverted(w, wp) == ExceedsInv(RAbs(RSub(w, wp)), DeltaThresholdInv)

\* _update_delta returns early: |dw| < 1e-6
DeltaNoChange(w, wp) == ~ExceedsInv(RAbs(RSub(w, wp)), DeltaThresholdInv)
                        /\ RAbs(RSub(w, wp)) # <<1, DeltaThresholdInv>>

\* previous velocity restored, then the change A_i * dw added
DeltaVelocity(a_i, b_i, wp, dw) ==
    RAdd(NodeVelocity(a_i, b_i, wp), RMul(R(a_i), dw))

\* the node list of _update_delta when it does not return early
DeltaPoints(tt, aa, bb, wp, w) ==
    [i \in 0..(Len0(tt) - 1) |->
        Point(tt[i], ClampNonNegative(ToKmh(DeltaVelocity(aa[i], bb[i], wp, RSub(w, wp)))))]

EmptyPoints == [i \in {} |-> Point(R(0), R(0))]

\* update_realtime on a prepared engine: the list returned and the new w_prev
UpdateOutcome(wk, method, tt, aa, bb, wp) ==
    LET w == ToMps(wk)
    IN  IF method = "direct"
        THEN [points |-> DirectPoints(tt, aa, bb, w), w_prev |-> w]
        ELSE IF method = "delta"
        THEN IF DeltaNoChange(w, wp)
             THEN [points |-> EmptyPoints, w_prev |-> wp]
             ELSE [points |-> DeltaPoints(tt, aa, bb, wp, w), w_prev |-> w]
        ELSE [points |-> EmptyPoints, w_prev |-> wp]

---------------------------------------------------------------------------
(* DistancePreservingEngine: calls *)

Call(op, raised, ok, points, segments, w, method, index) ==
    [op |-> op, raised |-> raised, ok |-> ok, points |-> points,
     segments |-> segments, w |-> w, method |-> method, index |-> index]

EngineInit ==
    /\ fps \in FpsChoices
    /\ t = EmptyArr
    /\ dt = EmptyArr
    /\ m = EmptyArr
    /\ A = [i \in {} |-> 0]
    /\ B = EmptyArr
    /\ anchor_k = -1
    /\ w_prev = R(0)
    /\ is_prepared = FALSE
    /\ call = Call("init", FALSE, FALSE, EmptyPoints, << >>, R(0), "", 0)
    /\ hist = [built |-> FALSE, rejected |-> FALSE]

\* what prepare_initial_graph(segments) computes once validation has passed
BuildOutcome(segments, f) ==
    LET N == Len(segments)
        d == DurationsOf(segments, f)
        tt == NodeTimesOf(d)
        mm == DistanceRatesOf(segments, d)
        k == AnchorChoice(N)
        aa == [i \in 0..N |-> SignA(i, k)]
        bb == [i \in 0..N |-> OffsetB(mm, k, i)]
        w == InitialAnchorVelocity(mm)
        points == BuildPoints(tt, aa, bb, w)
    IN  [t |-> tt, dt |-> d, m |-> mm, anchor_k |-> k, A |-> aa, B |-> bb,
         w_prev |-> w, points |-> points,
         verified |-> VerifyDistanceConservation(points, d, mm)]

\* the inputs on which _validate_segments raises, per fps (computed once)
RejectedInputs ==
    [f \in FpsChoices |-> {s \in SegmentLists : ValidateRaises(s, f)}]

\* BuildOutcome of every input that passes validation (computed once)
BuildTable ==
    [f \in FpsChoices |->
        [segments \in SegmentLists \ RejectedInputs[f] |-> BuildOutcome(segments, f)]]

\* (mutant) the arrays are cleared before validation runs
PrepareRejected_Cleared ==
    \E segments \in RejectedInputs[fps] :
        /\ call' = Call("prepare", TRUE, FALSE, EmptyPoints, segments, R(0), "", 0)
        /\ hist' = [hist EXCEPT !.rejected = TRUE]
        /\ t' = EmptyArr
        /\ dt' = EmptyArr
        /\ m' = EmptyArr
        /\ UNCHANGED <<fps, A, B, anchor_k, w_prev, is_prepared>>

\* prepare_initial_graph(segments), validation fails: ValueError propagates
PrepareRejected ==
    \E segments \in RejectedInputs[fps] :
        /\ call' = Call("prepare", TRUE, FALSE, EmptyPoints, segments, R(0), "", 0)
        /\ hist' = [hist EXCEPT !.rejected = TRUE]
        /\ UNCHANGED <<fps, t, dt, m, A, B, anchor_k, w_prev, is_prepared>>

\* prepare_initial_graph(segments), validation passes
PrepareBuilt ==
    \E segments \in SegmentLists \ RejectedInputs[fps] :
        /\ LET out == BuildTable[fps][segments]
           IN  /\ t' = out.t
               /\ dt' = out.dt
               /\ m' = out.m
               /\ anchor_k' = out.anchor_k
               /\ A' = out.A
               /\ B' = out.B
               /\ w_prev' = out.w_prev
               /\ is_prepared' = TRUE
               /\ call' = Call("prepare", FALSE, out.verified, out.points, segments,
                               R(0), "", 0)
        /\ hist' = [built |-> TRUE, rejected |-> FALSE]
        /\ UNCHANGED fps

PrepareInitialGraph ==
    \/ PrepareRejected
    \/ PrepareBuilt

\* (mutant) the last node refused as an anchor
BeginDrag_OffByOne ==
    \E anchor_index \in -1..(MaxSegs + 1) :
        /\ call' = Call("begin_drag", FALSE,
                        is_prepared /\ ~(anchor_index < 0 \/ anchor_index >= Len0(A) - 1),
                        EmptyPoints, << >>, R(0), "", anchor_index)
        /\ UNCHANGED <<fps, t, dt, m, A, B, anchor_k, w_prev, is_prepared, hist>>

\* begin_drag(anchor_index)
BeginDrag ==
    \E anchor_index \in -1..(MaxSegs + 1) :
        /\ call' = Call("begin_drag", FALSE,
                        is_prepared /\ ~(anchor_index < 0 \/ anchor_index >= Len0(A)),
                        EmptyPoints, << >>, R(0), "", anchor_index)
        /\ UNCHANGED <<fps, t, dt, m, A, B, anchor_k, w_prev, is_prepared, hist>>

\* update_realtime(new_anchor_velocity_kmh, method)
UpdateRealtime ==
    \E wk \in AnchorVelocities, method \in Methods :
        \/ /\ ~is_prepared
           /\ call' = Call("update", FALSE, FALSE, EmptyPoints, << >>, wk, method, 0)
           /\ UNCHANGED <<fps, t, dt, m, A, B, anchor_k, w_prev, is_prepared, hist>>
        \/ /\ is_prepared
           /\ LET out == UpdateOutcome(wk, method, t, A, B, w_prev)
              IN  /\ w_prev' = out.w_prev
                  /\ call' = Call("update", FALSE, Len0(out.points) > 0, out.points,
                                  << >>, wk, method, 0)
           /\ UNCHANGED <<fps, t, dt, m, A, B, anchor_k, is_prepared, hist>>

\* (mutant) reset() clears the arrays but leaves the engine prepared
Reset_StillPrepared ==
    /\ t' = EmptyArr
    /\ dt' = EmptyArr
    /\ m' = EmptyArr
    /\ A' = [i \in {} |-> 0]
    /\ B' = EmptyArr
    /\ anchor_k' = -1
    /\ w_prev' = R(0)
    /\ call' = Call("reset", FALSE, FALSE, EmptyPoints, << >>, R(0), "", 0)
    /\ hist' = [hist EXCEPT !.built = FALSE]
    /\ UNCHANGED <<fps, is_prepared>>

\* (mutant) reset() leaves the anchor index of the last build
Reset_KeepsAnchor ==
    /\ t' = EmptyArr
    /\ dt' = EmptyArr
    /\ m' = EmptyArr
    /\ A' = [i \in {} |-> 0]
    /\ B' = EmptyArr
    /\ w_prev' = R(0)
    /\ is_prepared' = FALSE
    /\ call' = Call("reset", FALSE, FALSE, EmptyPoints, << >>, R(0), "", 0)
    /\ hist' = [hist EXCEPT !.built = FALSE]
    /\ UNCHANGED <<fps, anchor_k>>

\* reset()
Reset ==
    /\ t' = EmptyArr
    /\ dt' = EmptyArr
    /\ m' = EmptyArr
    /\ A' = [i \in {} |-> 0]
    /\ B' = EmptyArr
    /\ anchor_k' = -1
    /\ w_prev' = R(0)
    /\ is_prepared' = FALSE
    /\ call' = Call("reset", FALSE, FALSE, EmptyPoints, << >>, R(0), "", 0)
    /\ hist' = [hist EXCEPT !.built = FALSE]
    /\ UNCHANGED fps

EngineNext ==
    \/ PrepareInitialGraph
    \/ BeginDrag
    \/ UpdateRealtime
    \/ Reset

---------------------------------------------------------------------------
(* DataBridge: inputs *)

\* a table row: frame_start, frame_end, distance and avg_velocity cells
Row(fs, fe, d, avg) ==
    [frame_start |-> fs, frame_end |-> fe, distance |-> d, avg_velocity |-> avg]

BlankRow == Row(Text, Text, Text, Text)

\* n consecutive rows of 30 frames from frame `first`, distances 10 m and 8 m
\* in turn, the first row's average-velocity cell holding avg
TimelineRows(n, first, avg) ==
    [k \in 1..n |->
        Row(Num(first + 30 * (k - 1)), Num(first + 30 * k),
            Num(IF k % 2 = 1 THEN 10 ELSE 8),
            IF k = 1 THEN avg ELSE Text)]

\* a blank row between two complete rows
GapRows ==
    << Row(Num(30), Num(60), Num(10), Text), BlankRow, Row(Num(60), Num(90), Num(8), Text) >>

\* three frames at fps 30 with 1.39 m: the distance covered at 50 km/h
BriefRows == << Row(Num(30), Num(33), <<"centi", 139>>, Text) >>

\* timelines from frame 30 (every row complete), timelines from frame 0 (the
\* first row starts at frame 0), the list with a blank row and the brief row
RowLists ==
    {TimelineRows(n, 30, avg) : n \in 0..MaxSegs, avg \in {Text, Num(36)}}
    \cup {TimelineRows(n, 0, Text) : n \in 1..MaxSegs}
    \cup {GapRows, BriefRows}

TableFpsChoices == {30}

\* number of blank rows of a new project (utils.constants.DEFAULT_SEGMENTS)
DefaultSegments == 1
\* utils.constants.DEFAULT_FPS
DefaultFps == 30
\* utils.constants.DEFAULT_MAX_ACCELERATION, DEFAULT_MAX_DECELERATION (m/s^2)
DefaultMaxAcceleration == <<7, 2>>
DefaultMaxDeceleration == <<-157, 20>>

---------------------------------------------------------------------------
(* DataBridge: pure parts *)

\* _parse_float(value): numbers and numeric text convert, anything else is 0.0
ParseFloat(value) ==
    IF value[1] = "num" THEN R(value[2])
    ELSE IF value[1] = "centi" THEN Norm(value[2], 100)
    ELSE R(0)

\* one entry of _initialize_linear_coefficients, start_time still 0
RawCoefficient(row, f, i) ==
    LET frame_start == ParseFloat(row.frame_start)
        frame_end == ParseFloat(row.frame_end)
        distance == ParseFloat(row.distance)
    IN  IF RLt(R(0), frame_start) /\ RLt(R(0), frame_end) /\ f > 0 /\ RLt(R(0), distance)
        THEN LET duration == RDiv(RSub(frame_end, frame_start), R(f))
             IN  [segment_index |-> i,
                  distance_constraint |->
                      IF RLt(R(0), duration)
                      THEN RDiv(RMul(RMul(R(2), distance), KmhPerMps), duration)
                      ELSE R(0),
                  duration |-> duration,
                  distance |-> distance,
                  start_time |-> R(0)]
        ELSE [segment_index |-> i, distance_constraint |-> R(0), duration |-> R(0),
              distance |-> R(0), start_time |-> R(0)]

RECURSIVE StartTime(_, _)
StartTime(raw, i) == IF i = 0 THEN R(0) ELSE RAdd(StartTime(raw, i - 1), raw[i - 1].duration)

\* _initialize_linear_coefficients(segments, fps)
InitializeLinearCoefficients(rows, f) ==
    LET raw == [i \in 0..(Len(rows) - 1) |-> RawCoefficient(rows[i + 1], f, i)]
    IN  [i \in 0..(Len(rows) - 1) |-> [raw[i] EXCEPT !.start_time = StartTime(raw, i)]]

\* the sign pattern of _calculate_linear_coefficients
BridgeSignA(i, anchor_index) ==
    IF (AbsInt(i - anchor_index) % 2) = 0 THEN 1 ELSE -1

\* the B propagation of _calculate_linear_coefficients
RECURSIVE BridgeOffsetB(_, _, _)
BridgeOffsetB(coefficients, anchor_index, i) ==
    IF i = anchor_index THEN R(0)
    ELSE IF i > anchor_index
    THEN RSub(coefficients[i - 1].distance_constraint,
              BridgeOffsetB(coefficients, anchor_index, i - 1))
    ELSE RSub(coefficients[i].distance_constraint,
              BridgeOffsetB(coefficients, anchor_index, i + 1))

NoParams == [i \in {} |-> [A |-> 0, B |-> R(0)]]

\* _calculate_linear_coefficients(coefficients, anchor_index)
CalculateLinearCoefficients(coefficients, anchor_index) ==
    IF Len0(coefficients) = 0 THEN NoParams
    ELSE [i \in 0..(Len0(coefficients) - 1) |->
            [A |-> BridgeSignA(i, anchor_index),
             B |-> BridgeOffsetB(coefficients, anchor_index, i)]]

\* _determine_initial_anchor(segments) (km/h)
DetermineInitialAnchor(rows) ==
    IF Len(rows) > 0
    THEN LET avg_velocity == ParseFloat(rows[1].avg_velocity)
         IN  IF RLt(R(0), avg_velocity) THEN RMul(avg_velocity, <<4, 5>>) ELSE R(50)
    ELSE R(50)

\* start velocity of a segment: v_i(w) = A_i * w + B_i
StartVelocity(param, w) == RAdd(RMul(R(param.A), w), param.B)

\* end velocity of a segment: m_i - v_i
EndVelocity(coeff, start_velocity) == RSub(coeff.distance_constraint, start_velocity)

\* the two points a segment contributes, none when its duration is not positive
RECURSIVE ProfileFrom(_, _, _, _)
ProfileFrom(coefficients, params, w, i) ==
    IF i >= Len0(coefficients) \/ i >= Len0(params) THEN << >>
    ELSE LET coeff == coefficients[i]
             start_velocity == StartVelocity(params[i], w)
         IN  (IF RLe(coeff.duration, R(0)) THEN << >>
              ELSE << Point(coeff.start_time, start_velocity),
                      Point(RAdd(coeff.start_time, coeff.duration),
                            EndVelocity(coeff, start_velocity)) >>)
             \o ProfileFrom(coefficients, params, w, i + 1)

\* the point list built by the loop shared by _generate_optimization_velocity
\* and _update_from_anchor_change
ProfilePoints(coefficients, params, w) == Arr(ProfileFrom(coefficients, params, w, 0))

\* _reverse_calculate_anchor(point_index, target_velocity)
ReverseCalculateAnchor(params, coefficients, point_index, target_velocity) ==
    LET segment_index == point_index \div 2
    IN  IF Len0(params) = 0 \/ Len0(coefficients) = 0 \/ segment_index >= Len0(params)
        THEN target_velocity
        ELSE LET param == params[segment_index]
                 v_equiv ==
                     IF point_index % 2 = 1
                     THEN IF segment_index < Len0(coefficients)
                          THEN RSub(coefficients[segment_index].distance_constraint,
                                    target_velocity)
                          ELSE target_velocity
                     ELSE target_velocity
             IN  IF ExceedsInv(RAbs(R(param.A)), GuardInv)
                 THEN RDiv(RSub(v_equiv, param.B), R(param.A))
                 ELSE target_velocity

---------------------------------------------------------------------------
(* DataBridge: calculated table values and acceleration labels *)

\* utils.constants.DEFAULT_UNIFORM_MOTION_THRESHOLD (m/s^2)
DefaultUniformMotionThreshold == <<1, 10>>

\* the least velocity difference (km/h) treated as an acceleration
VelDiffThreshold == <<1, 10>>

\* round(x, digits) with 10^digits = scale, as a count of 1/scale units; a
\* value exactly half way goes to the even count
RoundTo(x, scale) ==
    LET n == 2 * x[1] * scale + x[2]
        d == 2 * x[2]
        q == n \div d
    IN  IF n % d = 0 /\ q % 2 = 1 THEN q - 1 ELSE q

Round(x, scale) == Norm(RoundTo(x, scale), scale)

\* a cell holding a value rounded to two decimals
Centi(n) == <<"centi", n>>

\* the calculated columns of a segment
Display(acceleration, acc_time, acc_velocity, acc_dec_type) ==
    [acceleration |-> acceleration, acc_time |-> acc_time,
     acc_velocity |-> acc_velocity, acc_dec_type |-> acc_dec_type]

\* the calculated columns of a segment the table has just sent
BlankDisplay == Display(R(0), R(0), R(0), "")

\* the label of an acceleration (m/s^2) under the configured limits
AccDecType(acceleration, max_acc, max_dec) ==
    IF RLe(RAbs(acceleration), DefaultUniformMotionThreshold) THEN "Const (Uniform)"
    ELSE IF RLt(DefaultUniformMotionThreshold, acceleration)
    THEN (IF RLe(acceleration, max_acc) THEN "Acc (Valid)" ELSE "Acc (Invalid)")
    ELSE (IF RLe(max_dec, acceleration) THEN "Dec (Valid)" ELSE "Dec (Invalid)")

\* _update_calculated_values, one segment: the average velocity written
\* into the segment (the rounded duration and avg_time, which nothing reads
\* back, are left out)
CalculatedRow(row, f) ==
    LET frame_start == ParseFloat(row.frame_start)
        frame_end == ParseFloat(row.frame_end)
        distance == ParseFloat(row.distance)
    IN  IF RLt(R(0), frame_start) /\ RLt(R(0), frame_end) /\ f > 0
        THEN LET duration == RDiv(RSub(frame_end, frame_start), R(f))
             IN  IF RLt(R(0), distance) /\ RLt(R(0), duration)
                 THEN [row EXCEPT !.avg_velocity =
                          Centi(RoundTo(RMul(RDiv(distance, duration), KmhPerMps), 100))]
                 ELSE row
        ELSE row

\* _update_calculated_values, one segment: the label of the stored acceleration
CalculatedDisplay(d, max_acc, max_dec) ==
    [d EXCEPT !.acc_dec_type = AccDecType(d.acceleration, max_acc, max_dec)]

\* start of the time range _update_table_from_optimization_data gives row i
RECURSIVE SegmentStartTime(_, _, _)
SegmentStartTime(rows, f, i) ==
    IF i <= 1 THEN R(0)
    ELSE LET prev_start == ParseFloat(rows[i - 1].frame_start)
             prev_end == ParseFloat(rows[i - 1].frame_end)
         IN  RAdd(SegmentStartTime(rows, f, i - 1),
                  IF RLt(R(0), prev_start) /\ RLt(R(0), prev_end)
                  THEN RDiv(RSub(prev_end, prev_start), R(f))
                  ELSE R(0))

\* indices of the points whose time lies in [from, to]
PointsWithin(points, from, to) ==
    {k \in DOMAIN points : RLe(from, points[k].time) /\ RLe(points[k].time, to)}

MinOf(S) == CHOOSE x \in S : \A y \in S : x <= y
MaxOf(S) == CHOOSE x \in S : \A y \in S : y <= x

\* _update_table_from_optimization_data, one segment
OptimizedDisplay(rows, f, points, i, d, max_acc, max_dec) ==
    LET frame_start == ParseFloat(rows[i].frame_start)
        frame_end == ParseFloat(rows[i].frame_end)
    IN  IF frame_start = R(0) \/ frame_end = R(0) \/ f = 0 THEN d
        ELSE LET segment_start_time == SegmentStartTime(rows, f, i)
                 segment_end_time ==
                     RAdd(segment_start_time, RDiv(RSub(frame_end, frame_start), R(f)))
                 within == PointsWithin(points, segment_start_time, segment_end_time)
             IN  IF Cardinality(within) < 2 THEN d
                 ELSE LET first_point == points[MinOf(within)]
                          last_point == points[MaxOf(within)]
                          initial_velocity == first_point.velocity
                          final_velocity == last_point.velocity
                          time_diff == RSub(last_point.time, first_point.time)
                          acceleration ==
                              RDiv(ToMps(RSub(final_velocity, initial_velocity)), time_diff)
                      IN  IF RLt(VelDiffThreshold,
                                 RAbs(RSub(final_velocity, initial_velocity)))
                          THEN IF RLt(R(0), time_diff)
                               THEN Display(Round(acceleration, 100),
                                            Round(time_diff, 1000),
                                            Round(final_velocity, 100),
                                            AccDecType(acceleration, max_acc, max_dec))
                               ELSE d
                          ELSE Display(R(0), Round(time_diff, 1000),
                                       Round(initial_velocity, 100), "Const (Uniform)")

---------------------------------------------------------------------------
(* DataBridge and GraphWindow: state and operations *)

\* most motion events handled between two data updates
MaxMoves == 1

None == <<"none", R(0)>>
Some(x) == <<"some", x>>

NoCoefficients ==
    [i \in {} |-> [segment_index |-> 0, distance_constraint |-> R(0),
                   duration |-> R(0), distance |-> R(0), start_time |-> R(0)]]

\* the cells of a row list the coefficients are computed from
Measurements(rows) == [i \in DOMAIN rows |-> [rows[i] EXCEPT !.avg_velocity = Text]]

\* coefficients and parameters of every row list, computed once
SolverTable ==
    [f \in TableFpsChoices \cup {DefaultFps} |->
        [rows \in {Measurements(r) :
                      r \in RowLists \cup {[i \in 1..DefaultSegments |-> BlankRow]}} |->
            LET coefficients == InitializeLinearCoefficients(rows, f)
            IN  [coefficients |-> coefficients,
                 params |-> CalculateLinearCoefficients(coefficients, 0)]]]

\* _generate_optimization_velocity(segments, fps): the bridge afterwards, with
\* the returned list in optimization_velocity (_calculate_graph_data stores it)
GenerateOptimizationVelocity(b) ==
    LET solved == SolverTable[b.fps][Measurements(b.segments)]
    IN  IF Len0(solved.coefficients) = 0
        THEN [b EXCEPT !.coefficients = solved.coefficients,
                       !.optimization_velocity = EmptyPoints]
        ELSE LET w == IF b.anchor = None THEN DetermineInitialAnchor(b.segments)
                      ELSE b.anchor[2]
             IN  [b EXCEPT !.coefficients = solved.coefficients,
                           !.anchor_index = 0,
                           !.params = solved.params,
                           !.anchor = Some(w),
                           !.optimization_velocity =
                               ProfilePoints(solved.coefficients, solved.params, w)]

\* _update_calculated_values: the bridge afterwards
UpdateCalculatedValues(b) ==
    [b EXCEPT !.segments = [i \in DOMAIN b.segments |-> CalculatedRow(b.segments[i], b.fps)],
              !.display = [i \in DOMAIN b.display |->
                              CalculatedDisplay(b.display[i], b.max_acceleration,
                                                b.max_deceleration)]]

\* _update_table_from_optimization_data: the bridge afterwards
UpdateTableFromOptimizationData(b) ==
    IF Len0(b.optimization_velocity) = 0 THEN b
    ELSE [b EXCEPT !.display =
             [i \in DOMAIN b.display |->
                 OptimizedDisplay(b.segments, b.fps, b.optimization_velocity, i,
                                  b.display[i], b.max_acceleration, b.max_deceleration)]]

\* _calculate_graph_data: the bridge afterwards
CalculateGraphData(b) ==
    UpdateTableFromOptimizationData(UpdateCalculatedValues(GenerateOptimizationVelocity(b)))

\* (mutant) a data update leaves a drag in progress
OnDataUpdated_KeepsDrag(g, optimization_velocity) ==
    [g EXCEPT !.optimization_data = optimization_velocity,
              !.aliased = TRUE,
              !.moves = 0]

\* GraphWindow._on_data_updated(graph_data): the list object is shared
OnDataUpdated(g, optimization_velocity) ==
    [g EXCEPT !.optimization_data = optimization_velocity,
              !.aliased = TRUE,
              !.dragging = FALSE,
              !.selected_point_index = IF g.dragging THEN -1 ELSE @,
              !.moves = 0]

\* the last DataBridge or GraphWindow call: its arguments and results
BCall(op, p, v, w, points) ==
    [op |-> op, p |-> p, v |-> v, w |-> w, points |-> points, rows |-> << >>, ok |-> TRUE]

\* DataBridge(): the project data of a new project and no solver state
NewBridge ==
    [segments |-> [i \in 1..DefaultSegments |-> BlankRow],
     display |-> [i \in 1..DefaultSegments |-> BlankDisplay],
     fps |-> DefaultFps,
     max_acceleration |-> DefaultMaxAcceleration,
     max_deceleration |-> DefaultMaxDeceleration,
     coefficients |-> NoCoefficients,
     params |-> NoParams,
     anchor_index |-> 0,
     anchor |-> None,
     optimization_velocity |-> EmptyPoints,
     unsaved |-> FALSE]

BridgeInit ==
    /\ bridge = NewBridge
    /\ graph = [optimization_data |-> EmptyPoints,
                aliased |-> FALSE,
                dragging |-> FALSE,
                selected_point_index |-> -1,
                graph_visible |-> TRUE,
                moves |-> 0]
    /\ bcall = BCall("init", 0, R(0), R(0), EmptyPoints)

\* DataBridge.update_from_table(table_data), with the graph_data_updated
\* signal, for the tables in lists
UpdateFromTableOf(lists) ==
    \E rows \in lists, f \in TableFpsChoices :
        LET b == CalculateGraphData(
                     [bridge EXCEPT !.segments = rows,
                                    !.display = [i \in DOMAIN rows |-> BlankDisplay],
                                    !.fps = f])
        IN  /\ bridge' = [b EXCEPT !.unsaved = TRUE]
            /\ graph' = OnDataUpdated(graph, b.optimization_velocity)
            /\ bcall' = [BCall("update_from_table", 0, R(0), R(0), EmptyPoints)
                            EXCEPT !.rows = rows]

\* an edit of any table
UpdateFromTable == UpdateFromTableOf(RowLists)

\* most rows of the tables edited while the graph is dragged
MaxDragSegs == 2

\* complete timelines from frame 30 with blank average-velocity cells
ShortRowLists == {TimelineRows(n, 30, Text) : n \in 0..MaxDragSegs}

\* an edit of a short table
UpdateFromShortTable == UpdateFromTableOf(ShortRowLists)

\* DataBridge._update_from_anchor_change(new_anchor_velocity)
AnchorInputs == {R(90)}

UpdateFromAnchorChange ==
    \E w \in AnchorInputs \cup (IF bcall.op = "reverse" THEN {bcall.w} ELSE {}) :
        \/ /\ Len0(bridge.coefficients) = 0 \/ Len0(bridge.params) = 0
           /\ bcall' = BCall("anchor_change", bcall.p, bcall.v, w, EmptyPoints)
           /\ UNCHANGED <<bridge, graph>>
        \/ /\ Len0(bridge.coefficients) > 0 /\ Len0(bridge.params) > 0
           /\ bridge' = [bridge EXCEPT !.anchor = Some(w)]
           /\ bcall' = BCall("anchor_change", bcall.p, bcall.v, w,
                             ProfilePoints(bridge.coefficients, bridge.params, w))
           /\ UNCHANGED graph

\* DataBridge._reverse_calculate_anchor(point_index, target_velocity)
TargetVelocities == {R(40)}

ReverseAnchor ==
    \E point_index \in 0..(2 * Len(bridge.segments)), target_velocity \in TargetVelocities :
        /\ bcall' = BCall("reverse", point_index, target_velocity,
                          ReverseCalculateAnchor(bridge.params, bridge.coefficients,
                                                 point_index, target_velocity),
                          EmptyPoints)
        /\ UNCHANGED <<bridge, graph>>

---------------------------------------------------------------------------
(* DataBridge: settings and project files *)

\* settings an update_settings call may carry
SettingsChoices ==
    { [max_acceleration |-> DefaultMaxAcceleration,
       max_deceleration |-> DefaultMaxDeceleration],
      [max_acceleration |-> R(2), max_deceleration |-> R(-3)] }

\* DataBridge.update_settings(settings)
UpdateSettings ==
    \E settings \in SettingsChoices :
        /\ bridge' = [bridge EXCEPT !.max_acceleration = settings.max_acceleration,
                                    !.max_deceleration = settings.max_deceleration,
                                    !.unsaved = TRUE]
        /\ bcall' = BCall("update_settings", 0, R(0), R(0), EmptyPoints)
        /\ UNCHANGED graph

\* DataBridge.save_project(filepath): the file is written, or open() or
\* json.dump raises
SaveProject ==
    \E written \in BOOLEAN :
        /\ bridge' = IF written THEN [bridge EXCEPT !.unsaved = FALSE] ELSE bridge
        /\ bcall' = [BCall("save_project", 0, R(0), R(0), EmptyPoints)
                        EXCEPT !.ok = written]
        /\ UNCHANGED graph

\* the part of the bridge json.dump writes: the project data
Document(b) ==
    [segments |-> b.segments, display |-> b.display, fps |-> b.fps,
     max_acceleration |-> b.max_acceleration, max_deceleration |-> b.max_deceleration,
     optimization_velocity |-> b.optimization_velocity]

\* project files on disk: what a save wrote after a short table was entered
\* into a new project
ProjectDocuments ==
    { Document(CalculateGraphData(
          [NewBridge EXCEPT !.segments = rows,
                            !.display = [i \in DOMAIN rows |-> BlankDisplay],
                            !.fps = f])) :
        rows \in ShortRowLists, f \in TableFpsChoices }

\* load_project: the solver state dropped before the recalculation
ClearedSolver_KeepsAnchor(b) ==
    [b EXCEPT !.coefficients = NoCoefficients, !.params = NoParams]

ClearedSolver(b) ==
    [b EXCEPT !.coefficients = NoCoefficients, !.params = NoParams, !.anchor = None]

\* DataBridge.load_project(filepath): the file is read and the graph data
\* recalculated, or open() or json.load raises.  The table_data_updated
\* signal reaches the table only; the graph window keeps the list it has.
LoadProject ==
    \E document \in ProjectDocuments, read \in BOOLEAN :
        \/ /\ ~read
           /\ bcall' = [BCall("load_project", 0, R(0), R(0), EmptyPoints)
                           EXCEPT !.ok = FALSE]
           /\ UNCHANGED <<bridge, graph>>
        \/ /\ read
           /\ bridge' = CalculateGraphData(ClearedSolver(
                  [bridge EXCEPT !.segments = document.segments,
                                 !.display = document.display,
                                 !.fps = document.fps,
                                 !.max_acceleration = document.max_acceleration,
                                 !.max_deceleration = document.max_deceleration,
                                 !.optimization_velocity = document.optimization_velocity,
                                 !.unsaved = FALSE]))
           /\ graph' = [graph EXCEPT !.aliased = FALSE]
           /\ bcall' = [BCall("load_project", 0, R(0), R(0), EmptyPoints)
                           EXCEPT !.rows = document.segments]

---------------------------------------------------------------------------
(* VelocityOptimizer: closing a window *)

Windows == {"table_window", "graph_window"}

\* the buttons of the confirmation question
Replies == {"Yes", "No"}

\* VelocityOptimizer() after show(): both windows open.  closing, asked and
\* reply describe the last close event: its window, whether the question was
\* shown, and the answer
NewApp ==
    [table_window |-> TRUE, graph_window |-> TRUE, shutdown_requested |-> FALSE,
     closing |-> "", asked |-> FALSE, reply |-> ""]

\* VelocityOptimizer._shutdown, run by shutdown_requested: both windows are
\* closed and the application quits
Shutdown(a) ==
    [a EXCEPT !.table_window = FALSE, !.graph_window = FALSE,
              !.shutdown_requested = TRUE]

\* VelocityOptimizer._on_window_closing, with the answer to the question it
\* asks when there are unsaved changes
OnWindowClosing(a, unsaved, reply) ==
    IF unsaved /\ reply = "No" THEN a ELSE Shutdown(a)

\* closeEvent(event) of either window: window_closing is emitted, then the
\* event is accepted
CloseEvent ==
    \E window \in Windows, reply \in Replies :
        /\ app[window]
        /\ app' = [OnWindowClosing(
                       [app EXCEPT !.closing = window,
                                   !.asked = bridge.unsaved,
                                   !.reply = IF bridge.unsaved THEN reply ELSE ""],
                       bridge.unsaved, reply)
                   EXCEPT ![window] = FALSE]
        /\ bcall' = BCall("close", 0, R(0), R(0), EmptyPoints)
        /\ UNCHANGED <<bridge, graph>>

---------------------------------------------------------------------------
(* GraphWindow: mouse handlers *)

\* squared click distance to a point: time axis weighted by 10
ClickDistanceSq(point, click_x, click_y) ==
    LET x_dist == RMul(RSub(point.time, click_x), R(10))
        y_dist == RSub(point.velocity, click_y)
    IN  RAdd(RMul(x_dist, x_dist), RMul(y_dist, y_dist))

\* the loop of _on_mouse_press from index i on: the closest point so far and
\* its squared distance (closest = -1: none yet)
RECURSIVE ClosestFrom(_, _, _, _, _)
ClosestFrom(data, click_x, click_y, i, best) ==
    IF i >= Len0(data) THEN best
    ELSE LET d == ClickDistanceSq(data[i], click_x, click_y)
         IN  IF best.closest = -1 \/ RLt(d, best.distance_sq)
             THEN ClosestFrom(data, click_x, click_y, i + 1,
                              [closest |-> i, distance_sq |-> d])
             ELSE ClosestFrom(data, click_x, click_y, i + 1, best)

\* the first point at the least distance from the click, with that distance
Closest(data, click_x, click_y) ==
    ClosestFrom(data, click_x, click_y, 0, [closest |-> -1, distance_sq |-> R(0)])

\* acceleration (m/s^2) between two velocities in km/h over time_diff seconds
Acceleration(v_from, v_to, time_diff) == RDiv(ToMps(RSub(v_to, v_from)), time_diff)

\* the limits come from the bridge's settings
OutsideLimits(acceleration) ==
    RLt(bridge.max_acceleration, acceleration) \/ RLt(acceleration, bridge.max_deceleration)

\* GraphWindow._validate_velocity_change(point_index, new_velocity)
ValidateVelocityChange(data, point_index, new_velocity) ==
    LET n == Len0(data)
        prev_bad ==
            /\ point_index > 0
            /\ RLt(R(0), RSub(data[point_index].time, data[point_index - 1].time))
            /\ OutsideLimits(Acceleration(data[point_index - 1].velocity, new_velocity,
                                RSub(data[point_index].time, data[point_index - 1].time)))
        next_bad ==
            /\ point_index < n - 1
            /\ RLt(R(0), RSub(data[point_index + 1].time, data[point_index].time))
            /\ OutsideLimits(Acceleration(new_velocity, data[point_index + 1].velocity,
                                RSub(data[point_index + 1].time, data[point_index].time)))
    IN  ~prev_bad /\ ~next_bad

\* abs(time_a - time_b) < 0.001
SameTime(time_a, time_b) ==
    /\ ~ExceedsInv(RAbs(RSub(time_a, time_b)), SameTimeInv)
    /\ RAbs(RSub(time_a, time_b)) # <<1, SameTimeInv>>

\* the list after a motion event moved point_index to new_velocity: the point
\* itself and every point within 0.001 s of it
MovePoint(data, point_index, new_velocity) ==
    [i \in DOMAIN data |->
        IF i = point_index \/ SameTime(data[i].time, data[point_index].time)
        THEN [data[i] EXCEPT !.velocity = new_velocity]
        ELSE data[i]]

ClickOffsets == {R(0), R(6)}

\* GraphWindow._on_mouse_press(event): a click at, or above, a plotted point
MousePress ==
    \E inaxes \in BOOLEAN, offset \in ClickOffsets :
        \/ /\ ~inaxes \/ ~graph.graph_visible \/ Len0(graph.optimization_data) = 0
           /\ bcall' = BCall("press", -1, offset, R(0), EmptyPoints)
           /\ UNCHANGED <<bridge, graph>>
        \/ /\ inaxes /\ graph.graph_visible
           /\ \E at \in DOMAIN graph.optimization_data :
                LET data == graph.optimization_data
                    click_x == data[at].time
                    click_y == RAdd(data[at].velocity, offset)
                    found == Closest(data, click_x, click_y)
                    near == RLt(found.distance_sq, R(25))
                IN  /\ graph' = IF near
                                THEN [graph EXCEPT !.dragging = TRUE,
                                                   !.selected_point_index = found.closest]
                                ELSE graph
                    /\ bcall' = BCall("press", found.closest, offset, R(0), EmptyPoints)
           /\ UNCHANGED bridge

MotionInputs == {R(-5), R(40)}

\* GraphWindow._on_mouse_motion(event)
MouseMotion ==
    \E inaxes \in BOOLEAN, ydata \in MotionInputs :
        /\ graph.moves < MaxMoves
        /\ LET new_velocity == ClampNonNegative(ydata)
               idx == graph.selected_point_index
               handled == graph.dragging /\ inaxes /\ idx # -1
           IN  \/ /\ ~handled
                  /\ bcall' = BCall("motion", idx, ydata, R(0), EmptyPoints)
                  /\ UNCHANGED <<bridge, graph>>
               \/ /\ handled
                  /\ ~ValidateVelocityChange(graph.optimization_data, idx, new_velocity)
                  /\ graph' = [graph EXCEPT !.moves = @ + 1]
                  /\ bcall' = BCall("motion", idx, ydata, R(0), EmptyPoints)
                  /\ UNCHANGED bridge
               \/ /\ handled
                  /\ ValidateVelocityChange(graph.optimization_data, idx, new_velocity)
                  /\ LET moved == MovePoint(graph.optimization_data, idx, new_velocity)
                     IN  /\ graph' = [graph EXCEPT !.optimization_data = moved,
                                                   !.moves = @ + 1]
                         /\ bridge' = IF graph.aliased
                                      THEN [bridge EXCEPT !.optimization_velocity = moved]
                                      ELSE bridge
                         /\ bcall' = BCall("motion", idx, ydata, new_velocity, EmptyPoints)

\* (mutant) update_from_graph without the change flag
UpdateFromGraph_Unflagged(b, optimization_velocity) ==
    UpdateTableFromOptimizationData(
        [b EXCEPT !.optimization_velocity = optimization_velocity,
                  !.anchor = IF /\ Len0(b.coefficients) > 0
                                /\ Len0(b.params) > 0
                                /\ Len0(optimization_velocity) > 0
                             THEN Some(optimization_velocity[0].velocity)
                             ELSE @])

\* DataBridge.update_from_graph(graph_data)
UpdateFromGraph(b, optimization_velocity) ==
    [UpdateTableFromOptimizationData(
         [b EXCEPT !.optimization_velocity = optimization_velocity,
                   !.anchor = IF /\ Len0(b.coefficients) > 0
                                 /\ Len0(b.params) > 0
                                 /\ Len0(optimization_velocity) > 0
                              THEN Some(optimization_velocity[0].velocity)
                              ELSE @])
     EXCEPT !.unsaved = TRUE]

\* GraphWindow._on_mouse_release(event)
MouseRelease ==
    \/ /\ ~graph.dragging
       /\ bcall' = BCall("release", -1, R(0), R(0), EmptyPoints)
       /\ UNCHANGED <<bridge, graph>>
    \/ /\ graph.dragging
       /\ bridge' = UpdateFromGraph(bridge, graph.optimization_data)
       /\ graph' = [graph EXCEPT !.dragging = FALSE, !.selected_point_index = -1,
                                 !.aliased = TRUE]
       /\ bcall' = BCall("release", graph.selected_point_index, R(0), R(0), EmptyPoints)

---------------------------------------------------------------------------
(* Specifications.  The engine, the DataBridge solver and the GraphWindow  *)
(* handlers are driven separately: the application never builds the        *)
(* engine, and the solver calls and the mouse handlers meet only in the    *)
(* bridge's stored anchor velocity and profile.                            *)

Init ==
    /\ EngineInit
    /\ BridgeInit
    /\ app = NewApp

\* the engine, driven by its public calls
Next == EngineNext /\ UNCHANGED bridgeVars

Spec == Init /\ [][Next]_vars

\* the bridge beside an engine built with the default fps
BridgeStart == Init /\ fps = DefaultFps

\* DataBridge rebuilds and anchor calls
SolverNext ==
    /\ \/ UpdateFromTable
       \/ UpdateFromAnchorChange
       \/ ReverseAnchor
    /\ UNCHANGED <<engineVars, app>>

SpecSolver == BridgeStart /\ [][SolverNext]_vars

\* DataBridge rebuilds and GraphWindow drags
GraphNext ==
    /\ \/ UpdateFromShortTable
       \/ MousePress
       \/ MouseMotion
       \/ MouseRelease
    /\ UNCHANGED <<engineVars, app>>

SpecGraph == BridgeStart /\ [][GraphNext]_vars

\* a project edited, re-anchored, saved and loaded
FilesNext ==
    /\ \/ UpdateFromShortTable
       \/ UpdateFromAnchorChange
       \/ UpdateSettings
       \/ SaveProject
       \/ LoadProject
    /\ UNCHANGED <<engineVars, app>>

SpecFiles == BridgeStart /\ [][FilesNext]_vars

\* a project edited, saved and loaded, with clicks on the graph that commit
\* the plotted list
ProjectNext ==
    /\ \/ UpdateFromShortTable
       \/ UpdateSettings
       \/ SaveProject
       \/ LoadProject
       \/ MousePress
       \/ MouseRelease
    /\ UNCHANGED <<engineVars, app>>

SpecProject == BridgeStart /\ [][ProjectNext]_vars

\* a project edited and saved from the table window and committed from the
\* graph window while each is open, and windows closed
CloseNext ==
    /\ \/ /\ app.table_window
          /\ UpdateFromShortTable \/ SaveProject
          /\ UNCHANGED app
       \/ /\ app.graph_window
          /\ MousePress \/ MouseRelease
          /\ UNCHANGED app
       \/ CloseEvent
    /\ UNCHANGED engineVars

SpecClose == BridgeStart /\ [][CloseNext]_vars

\* successful engine builds and bridge rebuilds side by side
BuildsNext ==
    \/ PrepareBuilt /\ UNCHANGED bridgeVars
    \/ UpdateFromTable /\ UNCHANGED <<engineVars, app>>

SpecBuilds == Init /\ [][BuildsNext]_vars

---------------------------------------------------------------------------
(* Vocabulary of the properties *)

\* the last engine call was a build that succeeded
Built == call.op = "prepare" /\ ~call.raised

\* the last engine call was an update that returned a node list
Updated == call.op = "update" /\ Len0(call.points) > 0

\* number of segments of the prepared engine
NSeg == Len0(dt)

\* trapezoid distance of segment i under a node list in km/h
TrapezoidDistance(points, i) ==
    RDiv(RMul(RAdd(ToMps(points[i].velocity), ToMps(points[i + 1].velocity)), dt[i]), R(2))

\* the distance the engine's m and dt stand for
MeasuredDistance(i) == RDiv(RMul(m[i], dt[i]), R(2))

\* velocities of a node list, as a sequence
Velocities(points) == [i \in 1..Len0(points) |-> points[i - 1].velocity]

\* Scenario A: fps 30, frames 0-30 with 10 m, frames 30-60 with 8 m
ScenarioA == << Seg(Num(0), Num(30), Num(10)), Seg(Num(30), Num(60), Num(8)) >>

\* the bridge's last rebuild solved a non-empty coefficient list
BridgeBuilt == Len0(bridge.coefficients) > 0

\* the engine holds Scenario A's measurements: m = [20, 16], dt = [1, 1]
HoldsScenarioA ==
    /\ is_prepared
    /\ NSeg = 2
    /\ m[0] = R(20) /\ m[1] = R(16)
    /\ dt[0] = R(1) /\ dt[1] = R(1)

---------------------------------------------------------------------------
(* C1 *)

\* C1: after a successful build from a valid segment list, every segment's
\* trapezoid (v_i + v_{i+1}) * dt_i / 2 over the returned (unclamped) node list
\* equals the segment's measured distance, and _verify_distance_conservation
\* of that list returned True.
C1_FreshBuildConservesDistance ==
    Built =>
        /\ Len0(call.points) = Len(call.segments) + 1
        /\ \A i \in 0..(Len(call.segments) - 1) :
               TrapezoidDistance(call.points, i) = R(call.segments[i + 1].distance[2])
        /\ call.ok

\* a build of three segments whose list holds a negative (unclamped) velocity
C1_Witness ==
    /\ Built
    /\ Len(call.segments) = 3
    /\ \E i \in DOMAIN call.points : RLt(call.points[i].velocity, R(0))

---------------------------------------------------------------------------
(* C2 *)

\* every node list returned by update_realtime conserves every segment
C2_EngineUpdatesConserve ==
    Updated => \A i \in 0..(NSeg - 1) : TrapezoidDistance(call.points, i) = MeasuredDistance(i)

\* the coefficients of the segments the bridge emitted points for, in order
EmittedCoefficients ==
    SelectSeq([i \in 1..Len0(bridge.coefficients) |-> bridge.coefficients[i - 1]],
              LAMBDA c : RLt(R(0), c.duration))

\* every profile shown after a mouse-motion drag conserves every segment:
\* start + end velocity (km/h) of each emitted segment equals its m_i
C2_GraphDragsConserve ==
    (bcall.op = "motion" /\ Len0(graph.optimization_data) = 2 * Len(EmittedCoefficients)) =>
        \A j \in 1..Len(EmittedCoefficients) :
            RAdd(graph.optimization_data[2 * j - 2].velocity,
                 graph.optimization_data[2 * j - 1].velocity)
                = EmittedCoefficients[j].distance_constraint

\* C2: after a successful build, every profile returned by update_realtime or
\* shown by a GraphWindow mouse-motion drag still satisfies
\* (v_i + v_{i+1}) * dt_i / 2 = distance_i for every segment.
C2_DragsConserveDistance ==
    /\ C2_EngineUpdatesConserve
    /\ C2_GraphDragsConserve

---------------------------------------------------------------------------
(* C3 *)

\* C3: after any successful build every sign A_i is +1 or -1 and adjacent
\* signs are opposite, in the engine's A and in DataBridge's linear params.
C3_SignsAlternate ==
    /\ is_prepared =>
          /\ Len0(A) = NSeg + 1
          /\ \A i \in DOMAIN A : A[i] \in {1, -1}
          /\ \A i \in 0..(NSeg - 1) : A[i] = -A[i + 1]
    /\ BridgeBuilt =>
          /\ Len0(bridge.params) = Len0(bridge.coefficients)
          /\ \A i \in DOMAIN bridge.params : bridge.params[i].A \in {1, -1}
          /\ \A i \in 0..(Len0(bridge.params) - 2) :
                 bridge.params[i].A = -bridge.params[i + 1].A

\* an engine built over three segments beside a bridge solved over three rows
C3_Witness ==
    /\ Built /\ NSeg = 3
    /\ BridgeBuilt /\ Len0(bridge.params) = 3

---------------------------------------------------------------------------
(* C4 *)

\* C4: after any successful build B_i + B_{i+1} = m_i for every adjacent pair
\* of nodes, in the engine (anchor N // 2) and in DataBridge (anchor 0).
C4_OffsetsSumToRate ==
    /\ is_prepared =>
          /\ Len0(B) = NSeg + 1
          /\ \A i \in 0..(NSeg - 1) : RAdd(B[i], B[i + 1]) = m[i]
    /\ BridgeBuilt =>
          /\ Len0(bridge.params) = Len0(bridge.coefficients)
          /\ \A i \in 0..(Len0(bridge.params) - 2) :
                 RAdd(bridge.params[i].B, bridge.params[i + 1].B)
                     = bridge.coefficients[i].distance_constraint

\* an engine anchored inside the list (propagation runs both ways) beside a
\* bridge solved over three rows
C4_Witness ==
    /\ Built /\ NSeg = 3 /\ anchor_k = 1
    /\ m[0] # m[1]
    /\ BridgeBuilt /\ Len0(bridge.params) = 3
    /\ bridge.coefficients[0].distance_constraint # bridge.coefficients[1].distance_constraint

---------------------------------------------------------------------------
(* C5 *)

\* C5: after a successful build 0 <= anchor_k <= N, A[anchor_k] = +1 and
\* B[anchor_k] = 0, and an update_realtime with w >= 0 that returns a node
\* list returns exactly w as the velocity at node anchor_k.
C5_AnchorNodeFollowsInput ==
    /\ is_prepared =>
          /\ 0 <= anchor_k /\ anchor_k <= NSeg
          /\ A[anchor_k] = 1
          /\ B[anchor_k] = R(0)
    /\ (Updated /\ RLe(R(0), call.w)) =>
          call.points[anchor_k].velocity = call.w

\* an update over three segments that clamps another node to 0 while the
\* anchor node carries the input
C5_Witness ==
    /\ Updated /\ NSeg = 3
    /\ RLt(R(0), call.w)
    /\ \E i \in DOMAIN call.points : i # anchor_k /\ call.points[i].velocity = R(0)

---------------------------------------------------------------------------
(* C6 *)

\* no node of the prepared engine goes negative at anchor velocity wk (km/h)
NoClamping(wk) ==
    \A i \in DOMAIN A : RLe(R(0), NodeVelocity(A[i], B[i], ToMps(wk)))

\* C6: from any prepared state, update_realtime(w, 'direct') and
\* update_realtime(w, 'delta') return the same node velocities for every
\* target w at which nothing is clamped.
C6_DirectEqualsDelta ==
    is_prepared =>
        \A wk \in AnchorVelocities :
            NoClamping(wk) =>
                UpdateOutcome(wk, "direct", t, A, B, w_prev).points
                    = UpdateOutcome(wk, "delta", t, A, B, w_prev).points

---------------------------------------------------------------------------
(* C7 *)

\* C7: an update_realtime call that repeats the previous call's w and method
\* ('direct' or 'delta') returns the node list the previous call returned.
C7_RepeatedUpdateSameList ==
    [][(/\ call.op = "update" /\ call'.op = "update"
        /\ is_prepared
        /\ call'.w = call.w
        /\ call'.method = call.method
        /\ call.method \in {"direct", "delta"})
       => call'.points = call.points]_vars

---------------------------------------------------------------------------
(* C8 *)

\* C8: for a point index p of the generated profile and a target v,
\* _update_from_anchor_change(_reverse_calculate_anchor(p, v)) yields
\* velocity v at point p.
C8_ReverseThenRecompute ==
    [][(/\ bcall.op = "reverse" /\ bcall'.op = "anchor_change"
        /\ bcall'.w = bcall.w
        /\ bcall.p < Len0(bridge.optimization_velocity))
       => /\ bcall.p \in DOMAIN bcall'.points
          /\ bcall'.points[bcall.p].velocity = bcall.v]_vars

---------------------------------------------------------------------------
(* C9 *)

\* C9: a successful build sets w0 = m[0] / 2 and returns exactly
\* (A_i * w0 + B_i) * 3.6 at every node, unclamped; Scenario A at 30 fps gives
\* w0 = 10 m/s and the node velocities [36, 36, 21.6] km/h.
C9_InitialProfile ==
    /\ Built =>
          /\ w_prev = RDiv(m[0], R(2))
          /\ Len0(call.points) = NSeg + 1
          /\ \A i \in DOMAIN call.points :
                 call.points[i].velocity
                     = RMul(RAdd(RMul(R(A[i]), w_prev), B[i]), KmhPerMps)
    /\ (Built /\ fps = 30 /\ call.segments = ScenarioA) =>
          /\ w_prev = R(10)
          /\ Velocities(call.points) = << R(36), R(36), <<108, 5>> >>

\* Scenario A has just been built
C9_Witness ==
    /\ Built /\ fps = 30
    /\ call.segments = ScenarioA

---------------------------------------------------------------------------
(* C10 *)

\* C10 as stated: on Scenario A an update with w = 15 m/s (54 km/h) returns
\* the node velocities [15, 5, 11] m/s and segment 2 keeps its 8 m.
C10_ScenarioB_Stated ==
    (HoldsScenarioA /\ Updated /\ call.w = R(54)) =>
        /\ Velocities(call.points) = << R(54), R(18), <<198, 5>> >>
        /\ TrapezoidDistance(call.points, 1) = R(8)

\* C10: on Scenario A an update with w = 15 m/s (54 km/h) that returns a node
\* list returns [5, 15, 1] m/s = [18, 54, 3.6] km/h, the anchor being the
\* middle node, and segment 2 keeps its 8 m.
C10_ScenarioB ==
    (HoldsScenarioA /\ Updated /\ call.w = R(54)) =>
        /\ anchor_k = 1
        /\ Velocities(call.points) = << R(18), R(54), <<18, 5>> >>
        /\ TrapezoidDistance(call.points, 1) = R(8)

\* the direct update of Scenario A to 54 km/h has returned
C10_Witness ==
    /\ HoldsScenarioA /\ Updated
    /\ call.w = R(54) /\ call.method = "direct"

---------------------------------------------------------------------------
(* C11 *)

\* the engine's own state, without the record of the last call
engineState == <<t, dt, m, A, B, anchor_k, w_prev, is_prepared>>

\* the list is the clamp of the affine value at every node and wp is the
\* unclamped input wk (km/h) in m/s
ClampedList(points, wk, aa, bb, wp) ==
    /\ wp = ToMps(wk)
    /\ \A i \in DOMAIN points :
           /\ RLe(R(0), points[i].velocity)
           /\ points[i].velocity
                  = RMax(R(0), RMul(RAdd(RMul(R(aa[i]), ToMps(wk)), bb[i]), KmhPerMps))

\* every returned list is clamped, with w_prev at the unclamped input
C11_ReturnedListIsClamped ==
    Updated => ClampedList(call.points, call.w, A, B, w_prev)

\* C11: every node list returned by update_realtime holds max(0, (A_i*w +
\* B_i)*3.6) >= 0 at every node, the call leaves A and B as they were and
\* w_prev at the unclamped w, and a further update with the same w returns
\* the same clamped list.
C11_ClampedOutputRepeats ==
    [][/\ (call'.op = "update" /\ Len0(call'.points) > 0) =>
              /\ A' = A /\ B' = B
              /\ ClampedList(call'.points, call'.w, A, B, w_prev')
       /\ (/\ Updated /\ call'.op = "update"
           /\ call'.w = call.w
           /\ call'.method \in {"direct", "delta"}) =>
              call'.points = call.points]_vars

---------------------------------------------------------------------------
(* C12 *)

\* C12: a build from the empty segment list raises no error and returns an
\* empty node list.
C12_EmptyBuildReturnsEmpty ==
    (call.op = "prepare" /\ call.segments = << >>) =>
        /\ ~call.raised
        /\ Len0(call.points) = 0

---------------------------------------------------------------------------
(* C13 *)

\* the segment breaks one of the stated rules
BreaksRule(seg) ==
    \/ \E field \in {seg.frame_start, seg.frame_end, seg.distance} :
           field[1] \in {"missing", "text"}
    \/ /\ seg.frame_start[1] = "num" /\ seg.frame_end[1] = "num"
       /\ seg.frame_end[2] <= seg.frame_start[2]
    \/ /\ seg.distance[1] = "num"
       /\ seg.distance[2] <= 0

\* C13: prepare_initial_graph raises the validation error and returns no node
\* list exactly when the list is empty, or a segment lacks a field, has a
\* non-numeric field, has frame_end <= frame_start or distance <= 0, or
\* fps <= 0; otherwise it returns the node list.
C13_ValidationRules ==
    call.op = "prepare" =>
        /\ call.raised <=>
               \/ Len(call.segments) = 0
               \/ fps <= 0
               \/ \E i \in 1..Len(call.segments) : BreaksRule(call.segments[i])
        /\ call.raised => Len0(call.points) = 0
        /\ ~call.raised => Len0(call.points) = Len(call.segments) + 1

\* a list refused for its distance alone, at a positive fps
C13_Witness ==
    /\ call.op = "prepare" /\ call.raised
    /\ fps > 0
    /\ call.segments = << Seg(Num(0), Num(30), Num(10)), Seg(Num(0), Num(30), Num(0)) >>

---------------------------------------------------------------------------
(* C14 *)

\* C14: a prepare_initial_graph call that fails validation leaves t, dt, m,
\* A, B, anchor_k, w_prev and is_prepared exactly as they were.
C14_RejectedBuildChangesNothing ==
    [][(call'.op = "prepare" /\ call'.raised) => engineState' = engineState]_vars

\* a prepared engine has refused a list whose last segment alone is invalid
C14_Witness ==
    /\ call.op = "prepare" /\ call.raised
    /\ is_prepared /\ NSeg = 3
    /\ Len(call.segments) = 2
    /\ ~BreaksRule(call.segments[1])
    /\ BreaksRule(call.segments[2])

---------------------------------------------------------------------------
(* C15 *)

\* C15: once a build has failed validation, every update_realtime call
\* returns no profile until a later build succeeds.
C15_RejectionBlocksUpdates ==
    (call.op = "update" /\ hist.rejected) => Len0(call.points) = 0

---------------------------------------------------------------------------
(* C16 *)

\* C16: update_realtime(w, 'direct') returns a node list exactly when a build
\* has succeeded and reset() was not called since, begin_drag or not; in every
\* other state update_realtime returns an empty list, begin_drag returns
\* False, and w_prev is left as it was.
C16_UpdatesOnlyWhenBuilt ==
    [][/\ (call'.op = "update" /\ call'.method = "direct") =>
              (Len0(call'.points) > 0 <=> hist.built)
       /\ (call'.op \in {"update", "begin_drag"} /\ ~hist.built) =>
              /\ Len0(call'.points) = 0
              /\ ~call'.ok
              /\ w_prev' = w_prev]_vars

\* a direct update answered with an empty list after reset() of a built engine
C16_Witness ==
    /\ call.op = "update" /\ call.method = "direct"
    /\ Len0(call.points) = 0
    /\ ~hist.built /\ ~is_prepared
    /\ fps > 0

---------------------------------------------------------------------------
(* C17 *)

\* C17: begin_drag(anchor_index) returns True exactly when the engine is
\* prepared and 0 <= anchor_index <= N, and never changes t, dt, m, A, B,
\* anchor_k, w_prev or is_prepared.
C17_BeginDragOnlyChecks ==
    [][call'.op = "begin_drag" =>
          /\ call'.ok <=> (is_prepared /\ 0 <= call'.index /\ call'.index <= NSeg)
          /\ engineState' = engineState]_vars

\* begin_drag accepted the last node of a three-segment profile, which is
\* not the anchor of the build
C17_Witness ==
    /\ call.op = "begin_drag" /\ call.ok
    /\ NSeg = 3 /\ call.index = 3
    /\ anchor_k # call.index

---------------------------------------------------------------------------
(* C18 *)

\* the last call was a 'direct' or 'delta' update of a prepared engine
UpdatedPrepared ==
    /\ call.op = "update" /\ is_prepared
    /\ call.method \in {"direct", "delta"}

\* C18 as stated: after every 'direct' or 'delta' update of a prepared engine
\* w_prev equals the call's anchor velocity divided by 3.6.
C18_LastWriteWins_Stated ==
    UpdatedPrepared => w_prev = ToMps(call.w)

\* C18: after every 'direct' or 'delta' update of a prepared engine w_prev is
\* within 1e-6 m/s of the call's anchor velocity divided by 3.6, and equal to
\* it whenever the call returned a node list.
C18_LastWriteWins ==
    UpdatedPrepared =>
        /\ RLt(RAbs(RSub(w_prev, ToMps(call.w))), <<1, DeltaThresholdInv>>)
        /\ Updated => w_prev = ToMps(call.w)

\* a 'delta' update 5e-7 m/s away from w_prev has left w_prev where it was
C18_Witness ==
    /\ UpdatedPrepared /\ call.method = "delta"
    /\ call.w = JustAbove36
    /\ w_prev = R(10)

---------------------------------------------------------------------------
(* C19 *)

\* the list has one entry per node, starts at time 0 and adds each duration
TimesFollow(points, d) ==
    /\ Len0(points) = Len0(d) + 1
    /\ points[0].time = R(0)
    /\ \A i \in 1..Len0(d) :
           /\ points[i].time = RAdd(points[i - 1].time, d[i - 1])
           /\ RLt(points[i - 1].time, points[i].time)

\* C19: every node list returned by a build or an update over N segments has
\* N + 1 entries with t_0 = 0 and t_i = t_{i-1} + dt_{i-1}, strictly
\* increasing, and an update returns the times of the list returned before it.
C19_NodeTimes ==
    [][/\ ((call'.op = "prepare" /\ ~call'.raised) \/
           (call'.op = "update" /\ Len0(call'.points) > 0)) =>
              TimesFollow(call'.points, dt')
       /\ ((Built \/ Updated) /\ call'.op = "update" /\ Len0(call'.points) > 0) =>
              \A i \in DOMAIN call.points : call'.points[i].time = call.points[i].time]_vars

\* an update over three segments of uneven durations
C19_Witness ==
    /\ Updated /\ NSeg = 3
    /\ dt[0] # dt[2]

---------------------------------------------------------------------------
(* C20 *)

\* C20: after every rebuild the anchor velocity is the default of the new
\* segments: m[0] / 2 in the engine, _determine_initial_anchor of the new rows
\* in DataBridge.
C20_RebuildResetsAnchor ==
    /\ Built => w_prev = RDiv(m[0], R(2))
    /\ (bcall.op = "update_from_table" /\ BridgeBuilt) =>
           bridge.anchor = Some(DetermineInitialAnchor(bcall.rows))

---------------------------------------------------------------------------
(* C21 *)

---------------------------------------------------------------------------
(* C22 *)

\* the indices of the coefficients the bridge emits points for, in order
EmittedIndices ==
    SelectSeq([i \in 1..Len0(bridge.coefficients) |-> i - 1],
              LAMBDA i : RLt(R(0), bridge.coefficients[i].duration))

\* C22: whenever the DataBridge solver is initialised, the stored
\* optimization_velocity list is the one derived from the stored anchor
\* velocity w: each emitted segment's start point is A_i * w + B_i and its end
\* point is m_i minus its start point, also after update_from_graph.
C22_VelocitiesAreDerived ==
    (/\ BridgeBuilt
     /\ Len0(bridge.params) = Len0(bridge.coefficients)
     /\ bridge.anchor # None) =>
        /\ Len0(bridge.optimization_velocity) = 2 * Len(EmittedIndices)
        /\ \A j \in 1..Len(EmittedIndices) :
               LET i == EmittedIndices[j]
                   start_point == bridge.optimization_velocity[2 * j - 2]
                   end_point == bridge.optimization_velocity[2 * j - 1]
               IN  /\ start_point.velocity
                          = StartVelocity(bridge.params[i], bridge.anchor[2])
                   /\ end_point.velocity
                          = RSub(bridge.coefficients[i].distance_constraint,
                                 start_point.velocity)

---------------------------------------------------------------------------
(* C23 *)

\* the acceleration (m/s^2) of the j-th emitted segment over the stored list:
\* (v_end - v_start) / dt
SegmentAcceleration(j) ==
    Acceleration(bridge.optimization_velocity[2 * j - 2].velocity,
                 bridge.optimization_velocity[2 * j - 1].velocity,
                 bridge.coefficients[EmittedIndices[j]].duration)

\* C23: after a rebuild, every segment the solver emitted carries the label of
\* its acceleration a = (v_end - v_start) / dt: 'Const (Uniform)' iff
\* |a| <= uniform_threshold, else 'Acc (Valid)' iff a <= max_acceleration,
\* 'Acc (Invalid)' iff a > max_acceleration, 'Dec (Valid)' iff
\* a >= max_deceleration, 'Dec (Invalid)' iff a < max_deceleration.
C23_LabelsFollowAcceleration ==
    (/\ bcall.op = "update_from_table"
     /\ Len0(bridge.optimization_velocity) = 2 * Len(EmittedIndices)) =>
        \A j \in 1..Len(EmittedIndices) :
            bridge.display[EmittedIndices[j] + 1].acc_dec_type
                = AccDecType(SegmentAcceleration(j), bridge.max_acceleration,
                             bridge.max_deceleration)

---------------------------------------------------------------------------
(* C24 *)

\* C24: computing the accelerations and labels of a rebuild leaves the solver
\* and its inputs alone: afterwards the coefficients are those of the rows
\* the table sent, and the stored segments hold the same frames and distances
\* and yield the same initial anchor velocity on the next rebuild as those
\* rows.
C24_ClassificationIsDisplayOnly ==
    bcall.op = "update_from_table" =>
        /\ bridge.coefficients = InitializeLinearCoefficients(bcall.rows, bridge.fps)
        /\ Measurements(bridge.segments) = Measurements(bcall.rows)
        /\ DetermineInitialAnchor(bridge.segments) = DetermineInitialAnchor(bcall.rows)

---------------------------------------------------------------------------
(* C25 *)

\* in a list of start/end point pairs, every end point's velocity is the
\* next pair's start velocity
Continuous(points) ==
    \A k \in 0..((Len0(points) \div 2) - 2) :
        points[2 * k + 1].velocity = points[2 * k + 2].velocity

\* C25: every profile produced by _generate_optimization_velocity or
\* _update_from_anchor_change is continuous: of two consecutively emitted
\* segments the earlier one's end velocity equals the later one's start
\* velocity, whatever the anchor velocity and the segment list.
C25_ProfilesAreContinuous ==
    /\ bcall.op = "update_from_table" => Continuous(bridge.optimization_velocity)
    /\ bcall.op = "anchor_change" => Continuous(bcall.points)

---------------------------------------------------------------------------
(* C26 *)

\* a row the data model calls valid: frame_start >= 0, frame_end > frame_start
\* and distance > 0
ValidRow(row) ==
    /\ row.frame_start[1] # "text" /\ row.frame_end[1] # "text" /\ row.distance[1] # "text"
    /\ RLe(R(0), ParseFloat(row.frame_start))
    /\ RLt(ParseFloat(row.frame_start), ParseFloat(row.frame_end))
    /\ RLt(R(0), ParseFloat(row.distance))

\* C26: after a rebuild with fps > 0, every row with frame_start >= 0,
\* frame_end > frame_start and distance > 0 has the duration
\* dt = (frame_end - frame_start) / fps > 0 and the constraint
\* m = 2 * distance / dt in km/h, and its start and end points are in the
\* generated profile.
C26_ValidRowsAreSolved ==
    (bcall.op = "update_from_table" /\ bridge.fps > 0) =>
        \A i \in DOMAIN bcall.rows :
            ValidRow(bcall.rows[i]) =>
                LET row == bcall.rows[i]
                    duration == RDiv(RSub(ParseFloat(row.frame_end),
                                          ParseFloat(row.frame_start)), R(bridge.fps))
                IN  /\ bridge.coefficients[i - 1].duration = duration
                    /\ bridge.coefficients[i - 1].distance_constraint
                           = RDiv(ToKmh(RMul(R(2), ParseFloat(row.distance))), duration)
                    /\ \E j \in 1..Len(EmittedIndices) :
                           /\ EmittedIndices[j] = i - 1
                           /\ 2 * j - 1 \in DOMAIN bridge.optimization_velocity


\* C27: between engine calls a prepared engine holds N+1 node times, signs
\* and offsets and N >= 1 durations and distance constraints, every duration
\* is positive and the anchor is node N // 2; after reset() the five arrays
\* are empty, anchor_k is -1, w_prev is 0 and the engine is not prepared
C27_EngineArraysConsistent ==
    /\ is_prepared =>
           LET N == Len0(dt)
           IN  /\ N >= 1
               /\ Len0(m) = N
               /\ Len0(t) = N + 1
               /\ Len0(A) = N + 1
               /\ Len0(B) = N + 1
               /\ DOMAIN dt = 0..(N - 1)
               /\ \A i \in DOMAIN dt : RLt(R(0), dt[i])
               /\ anchor_k = N \div 2
    /\ call.op = "reset" =>
           /\ Len0(t) = 0
           /\ Len0(dt) = 0
           /\ Len0(m) = 0
           /\ Len0(A) = 0
           /\ Len0(B) = 0
           /\ anchor_k = -1
           /\ w_prev = R(0)
           /\ ~is_prepared

\* a build of the largest list was followed by a rejected build, which left
\* the engine prepared
C27_Witness ==
    /\ is_prepared
    /\ Len0(dt) = MaxSegs
    /\ call.op = "prepare"
    /\ call.raised

\* a reset() that followed a build
C27_WitnessReset ==
    /\ call.op = "reset"
    /\ hist.rejected
    /\ Len0(t) = 0


\* C28: under every interleaving of mouse press, motion, release and data
\* updates, while GraphWindow is dragging the selected point index is set
\* and is an index of the window's current optimization_data
C28_DragIndexValid ==
    graph.dragging =>
        /\ graph.selected_point_index # -1
        /\ graph.selected_point_index \in DOMAIN graph.optimization_data

\* a drag of the last point of a two-segment profile, after a handled motion
C28_Witness ==
    /\ graph.dragging
    /\ graph.moves > 0
    /\ bcall.op = "motion"
    /\ Len0(graph.optimization_data) = 2 * MaxDragSegs
    /\ graph.selected_point_index = Len0(graph.optimization_data) - 1


C30_NoKeepsWindowsOpen ==
    [][/\ (bcall'.op = "close" /\ bridge.unsaved /\ app'.reply = "No")
           => /\ ~app'.shutdown_requested
              /\ app'.table_window = app.table_window
              /\ app'.graph_window = app.graph_window
       /\ (app'.shutdown_requested /\ ~app.shutdown_requested)
           => (~bridge.unsaved \/ app'.reply = "Yes")]_vars

============================================================================
